---- MODULE Spec2Model ----
(***************************************************************************)
(* Project Euler 10: the sum of the primes below two million.              *)
(*                                                                         *)
(* src/src/main.rs defines the trait Primality (is_prime(&self, n: u64))   *)
(* with six implementations and a driver, main, that sums the integers of  *)
(* a range the wired implementation reports prime.                         *)
(*                                                                         *)
(* The module holds                                                        *)
(*   - the iterators the for loops run over (Range, RangeInclusive and the *)
(*     hand-written TestRange) as records with a next operator;            *)
(*   - each implementation's match as an operator that either returns or   *)
(*     enters internal_is_prime with an iterator, and is_prime built on it;*)
(*   - CallSpec: one is_prime call run step by step (match, next, n % i);  *)
(*   - IterSpec: one TestRange drained by repeated next();                 *)
(*   - Spec / FairSpec: the driver, main.                                  *)
(***************************************************************************)
EXTENDS Integers, Sequences, FiniteSets

VARIABLES
    pc,        \* control position of the program being run
    filter,    \* the Primality instance in use (main.rs:10)
    upper,     \* exclusive end of the driver's range (main.rs:11)
    cur,       \* next integer the driver's range yields (main.rs:11)
    sum,       \* the driver's u64 accumulator (main.rs:11-13)
    out,       \* the values printed so far (main.rs:15)
    n,         \* argument of the is_prime call in progress
    iter,      \* iterator of the for loop of internal_is_prime, or NoIter
    i,         \* loop variable of internal_is_prime
    result,    \* Some(b) once the is_prime call has returned b, else None
    item,      \* what the last TestRange::next() returned (IterSpec)
    yielded,   \* the items a drained TestRange has produced (IterSpec)
    results    \* what each implementation returned for n (SuiteSpec)

vars ==
    <<pc, filter, upper, cur, sum, out, n, iter, i, result, item, yielded,
      results>>

(***************************************************************************)
(* Bounds of the model and constants of the program.                       *)
(***************************************************************************)
\* largest argument an is_prime call is started with in CallSpec
MaxN == 1024
\* largest limit a TestRange is built with in IterSpec
MaxLimit == 128
\* largest n the implementations are applied to side by side in SuiteSpec
MaxSuiteN == 100
\* the driver's range end: 2_000_000 in main, scaled down
MaxUpper == 1100
\* the range the tests compare each strategy with the sieve on: 1..=1000
TestLimit == 1000
\* u64 held as U64Limbs digits of base LimbBase (2^16), least significant first
LimbBase == 65536
U64Limbs == 4

\* Option<T>
None == <<>>
Some(x) == <<x>>
NoIter == [kind |-> "NoIter", current |-> 0, limit |-> 0]

(***************************************************************************)
(* Iterators.  next returns [item, self]: the Option<u64> and the iterator *)
(* after the call.                                                         *)
(***************************************************************************)
\* 2..n : core::ops::Range, end exclusive
Range(start, end) == [kind |-> "Range", current |-> start, limit |-> end]

\* 2..=max : core::ops::RangeInclusive, end inclusive
RangeInclusive(start, end) ==
    [kind |-> "RangeInclusive", current |-> start, limit |-> end]

\* TestRange::new
TestRange_new(limit) == [kind |-> "TestRange", current |-> 3, limit |-> limit]

Range_next(self) ==
    IF self.current < self.limit
    THEN [item |-> Some(self.current),
          self |-> [self EXCEPT !.current = @ + 1]]
    ELSE [item |-> None, self |-> self]

RangeInclusive_next(self) ==
    IF self.current <= self.limit
    THEN [item |-> Some(self.current),
          self |-> [self EXCEPT !.current = @ + 1]]
    ELSE [item |-> None, self |-> self]

\* variant of TestRange_next: the bound compared with >=, so an odd limit is
\* never yielded
TestRange_next_exclusive(self) ==
    IF self.current >= self.limit
    THEN [item |-> None, self |-> self]
    ELSE [item |-> Some(self.current),
          self |-> [self EXCEPT !.current = @ + 2]]

\* impl Iterator for TestRange: None once current > limit, else yield current
\* and advance it by 2
TestRange_next(self) ==
    IF self.current > self.limit
    THEN [item |-> None, self |-> self]
    ELSE [item |-> Some(self.current),
          self |-> [self EXCEPT !.current = @ + 2]]

Iter_next(self) ==
    CASE self.kind = "Range" -> Range_next(self)
      [] self.kind = "RangeInclusive" -> RangeInclusive_next(self)
      [] self.kind = "TestRange" -> TestRange_next(self)

(***************************************************************************)
(* (n as f64).sqrt() as u64: the floor of the square root.  The conversion *)
(* to f64 is exact below 2^53 and the correctly rounded root floors to the *)
(* integer square root below 2^52, which covers every n of the model.      *)
(***************************************************************************)
RECURSIVE IsqrtFrom(_, _)
IsqrtFrom(x, r) == IF (r + 1) * (r + 1) > x THEN r ELSE IsqrtFrom(x, r + 1)

sqrt_as_u64(x) == IsqrtFrom(x, 0)

(***************************************************************************)
(* primal::Sieve, the external crate behind SievePrimality: a table of the *)
(* primes up to limit built once by Sieve::new, read by Sieve::is_prime.   *)
(***************************************************************************)
RECURSIVE SieveFrom(_, _, _)
SieveFrom(table, p, limit) ==
    IF p * p > limit THEN table
    ELSE SieveFrom(IF table[p]
                   THEN [k \in 0..limit |->
                            table[k] /\ ~(k >= p * p /\ k % p = 0)]
                   ELSE table,
                   p + 1, limit)

Sieve_new(limit) == SieveFrom([k \in 0..limit |-> k >= 2], 2, limit)

SievePrimality_new(limit) ==
    [kind |-> "SievePrimality", limit |-> limit, table |-> Sieve_new(limit)]

\* the unit structs
Unit(kind) == [kind |-> kind, limit |-> 0, table |-> <<>>]

TrialKinds ==
    {"NaivePrimality", "NaivePrimalityWithRangeLimit", "FastLinearPrimality",
     "NaivePrimalityWithNonLinearRangeLimit", "FastNonLinearPrimality"}

OddStepKinds == {"FastLinearPrimality", "FastNonLinearPrimality"}

Kinds == TrialKinds \cup {"SievePrimality"}

(***************************************************************************)
(* The match of each is_prime: it returns a boolean at once, or calls      *)
(* internal_is_prime, which builds the iterator of its for loop.           *)
(***************************************************************************)
Return(b) == [returns |-> TRUE, value |-> b, iter |-> NoIter]
Enter(it) == [returns |-> FALSE, value |-> FALSE, iter |-> it]

\* variant of NaivePrimality_match: the divisors start at 3
NaivePrimality_match_from3(m) ==
    IF m = 1 THEN Return(FALSE)
    ELSE IF m = 2 THEN Return(TRUE)
    ELSE Enter(Range(3, m))

NaivePrimality_match(m) ==
    IF m = 1 THEN Return(FALSE)
    ELSE IF m = 2 THEN Return(TRUE)
    ELSE Enter(Range(2, m))

NaivePrimalityWithRangeLimit_match(m) ==
    IF m = 1 THEN Return(FALSE)
    ELSE IF m = 2 THEN Return(TRUE)
    ELSE Enter(RangeInclusive(2, m \div 2))

\* variant of FastLinearPrimality_match: the bound n / 3 taken as exclusive
FastLinearPrimality_match_exclusive(m) ==
    IF m = 1 THEN Return(FALSE)
    ELSE IF m \in {2, 3} THEN Return(TRUE)
    ELSE IF m % 2 = 0 THEN Return(FALSE)
    ELSE Enter(TestRange_new(m \div 3 - 1))

\* variant of FastLinearPrimality_match: the arm for even n is missing
FastLinearPrimality_match_no_even_arm(m) ==
    IF m = 1 THEN Return(FALSE)
    ELSE IF m \in {2, 3} THEN Return(TRUE)
    ELSE Enter(TestRange_new(m \div 3))

FastLinearPrimality_match(m) ==
    IF m = 1 THEN Return(FALSE)
    ELSE IF m \in {2, 3} THEN Return(TRUE)
    ELSE IF m % 2 = 0 THEN Return(FALSE)
    ELSE Enter(TestRange_new(m \div 3))

\* variant of NaivePrimalityWithNonLinearRangeLimit_match: the arm for 2 is
\* missing
NaivePrimalityWithNonLinearRangeLimit_match_no_two_arm(m) ==
    IF m = 1 THEN Return(FALSE)
    ELSE Enter(RangeInclusive(2, sqrt_as_u64(m) + 1))

NaivePrimalityWithNonLinearRangeLimit_match(m) ==
    IF m = 1 THEN Return(FALSE)
    ELSE IF m = 2 THEN Return(TRUE)
    ELSE Enter(RangeInclusive(2, sqrt_as_u64(m) + 1))

\* variant of FastNonLinearPrimality_match: the arm for even n is missing
FastNonLinearPrimality_match_no_even_arm(m) ==
    IF m = 1 THEN Return(FALSE)
    ELSE IF m \in {2, 3} THEN Return(TRUE)
    ELSE Enter(TestRange_new(sqrt_as_u64(m) + 1))

FastNonLinearPrimality_match(m) ==
    IF m = 1 THEN Return(FALSE)
    ELSE IF m \in {2, 3} THEN Return(TRUE)
    ELSE IF m % 2 = 0 THEN Return(FALSE)
    ELSE Enter(TestRange_new(sqrt_as_u64(m) + 1))

SievePrimality_is_prime(self, m) == self.table[m]

Match(self, m) ==
    CASE self.kind = "NaivePrimality" -> NaivePrimality_match(m)
      [] self.kind = "NaivePrimalityWithRangeLimit" ->
            NaivePrimalityWithRangeLimit_match(m)
      [] self.kind = "FastLinearPrimality" -> FastLinearPrimality_match(m)
      [] self.kind = "NaivePrimalityWithNonLinearRangeLimit" ->
            NaivePrimalityWithNonLinearRangeLimit_match(m)
      [] self.kind = "FastNonLinearPrimality" -> FastNonLinearPrimality_match(m)
      [] self.kind = "SievePrimality" ->
            Return(SievePrimality_is_prime(self, m))

\* the items a for loop over the iterator visits when it never breaks
Iter_items(self) ==
    CASE self.kind = "Range" -> self.current..(self.limit - 1)
      [] self.kind = "RangeInclusive" -> self.current..self.limit
      [] self.kind = "TestRange" ->
            {k \in self.current..self.limit : (k - self.current) % 2 = 0}

\* the for loop of internal_is_prime: false at the first i with n % i == 0,
\* true when the iterator is exhausted
internal_is_prime(m, it) == \A k \in Iter_items(it) : m % k # 0

is_prime(self, m) ==
    LET d == Match(self, m)
    IN  IF d.returns THEN d.value ELSE internal_is_prime(m, d.iter)

(***************************************************************************)
(* u64 arithmetic of the accumulator.  A u64 is U64Limbs digits of base    *)
(* LimbBase, least significant first.                                      *)
(***************************************************************************)
RECURSIVE Digits(_, _)
Digits(x, k) ==
    IF k = 0 THEN <<>> ELSE <<x % LimbBase>> \o Digits(x \div LimbBase, k - 1)

\* a value that fits the model's integers, as u64
U64(x) == Digits(x, U64Limbs)

RECURSIVE AddLimbs(_, _, _, _)
AddLimbs(a, b, k, carry) ==
    IF k > Len(a) THEN [value |-> <<>>, overflow |-> carry > 0]
    ELSE LET s == a[k] + b[k] + carry
             rest == AddLimbs(a, b, k + 1, s \div LimbBase)
         IN  [value |-> <<s % LimbBase>> \o rest.value,
              overflow |-> rest.overflow]

\* variant of U64_add: the accumulator is 16 bits wide
U16_add(a, b) ==
    LET r == AddLimbs(<<a[1]>>, <<b[1]>>, 1, 0)
    IN  [value |-> r.value \o [k \in 1..(U64Limbs - 1) |-> 0],
         overflow |-> r.overflow]

\* a + b on u64: the wrapped value and whether the addition overflowed
U64_add(a, b) == AddLimbs(a, b, 1, 0)

(***************************************************************************)
(* CallSpec: one call filter.is_prime(n), step by step.                    *)
(***************************************************************************)
Idle == /\ upper = 0 /\ cur = 0 /\ sum = U64(0) /\ out = <<>>

NoCall == /\ n = 0 /\ iter = NoIter /\ i = 0 /\ result = None

NoDrain == /\ item = None /\ yielded = <<>>

NoSuite == results = <<>>

\* let sieve = SievePrimality::new(1000);
TestSieve == SievePrimality_new(TestLimit)

Instance(kind) == IF kind = "SievePrimality" THEN TestSieve ELSE Unit(kind)

\* the instances main can be wired with, the sieve built for its range
Filters(limit) ==
    {Unit(k) : k \in TrialKinds} \cup {SievePrimality_new(limit)}

CallInit ==
    /\ pc = "call"
    /\ filter \in {Instance(k) : k \in Kinds}
    /\ n \in 0..MaxN
    \* callers keep a sieve query within the sieve's limit
    /\ filter.kind = "SievePrimality" => n <= filter.limit
    /\ iter = NoIter /\ i = 0 /\ result = None
    /\ Idle /\ NoDrain /\ NoSuite

\* fn is_prime: the match on n
CallMatch ==
    /\ pc = "call"
    /\ LET d == Match(filter, n)
       IN  IF d.returns
           THEN /\ result' = Some(d.value)
                /\ pc' = "returned"
                /\ iter' = iter
           ELSE /\ iter' = d.iter
                /\ pc' = "loop"
                /\ result' = result
    /\ UNCHANGED <<filter, upper, cur, sum, out, n, i, item, yielded, results>>

\* for i in ...: the iterator's next(); the loop ends with `true` on None
LoopNext ==
    /\ pc = "loop"
    /\ LET r == Iter_next(iter)
       IN  /\ iter' = r.self
           /\ IF r.item = None
              THEN /\ result' = Some(TRUE)
                   /\ pc' = "returned"
                   /\ i' = i
              ELSE /\ i' = r.item[1]
                   /\ pc' = "test"
                   /\ result' = result
    /\ UNCHANGED <<filter, upper, cur, sum, out, n, item, yielded, results>>

\* if n % i == 0 { return false; }
LoopTest ==
    /\ pc = "test"
    /\ IF n % i = 0
       THEN /\ result' = Some(FALSE)
            /\ pc' = "returned"
       ELSE /\ pc' = "loop"
            /\ result' = result
    /\ UNCHANGED <<filter, upper, cur, sum, out, n, iter, i, item, yielded, results>>

CallNext == CallMatch \/ LoopNext \/ LoopTest

CallSpec == CallInit /\ [][CallNext]_vars

(***************************************************************************)
(* IterSpec: a TestRange built by TestRange::new(limit) and drained by     *)
(* repeated next(), as a for loop that never breaks does.                  *)
(***************************************************************************)
IterInit ==
    /\ pc = "drain"
    /\ \E limit \in 0..MaxLimit : iter = TestRange_new(limit)
    /\ item = None /\ yielded = <<>>
    /\ filter = Unit("FastLinearPrimality")
    /\ n = 0 /\ i = 0 /\ result = None
    /\ Idle /\ NoSuite

\* one call of next() that yields
DrainSome ==
    /\ pc \in {"drain", "drained"}
    /\ LET r == TestRange_next(iter)
       IN  /\ r.item # None
           /\ iter' = r.self
           /\ item' = r.item
           /\ yielded' = Append(yielded, r.item[1])
           /\ pc' = "drain"
    /\ UNCHANGED <<filter, upper, cur, sum, out, n, i, result, results>>

\* one call of next() that returns None
DrainNone ==
    /\ pc \in {"drain", "drained"}
    /\ LET r == TestRange_next(iter)
       IN  /\ r.item = None
           /\ iter' = r.self
           /\ item' = r.item
           /\ yielded' = yielded
           /\ pc' = "drained"
    /\ UNCHANGED <<filter, upper, cur, sum, out, n, i, result, results>>

IterNext == DrainSome \/ DrainNone

IterSpec == IterInit /\ [][IterNext]_vars

\* a for loop calls next() until it returns None
IterFairSpec == IterSpec /\ WF_vars(IterNext)

(***************************************************************************)
(* SuiteSpec: every implementation applied to the same n, as the tests     *)
(* apply a strategy and the sieve to the same i and compare.               *)
(***************************************************************************)
SuiteInit ==
    /\ pc = "suite"
    /\ n \in 0..MaxSuiteN
    /\ results = [k \in Kinds |-> None]
    /\ filter = TestSieve
    /\ iter = NoIter /\ i = 0 /\ result = None
    /\ Idle /\ NoDrain

\* variant of Invoke: NaivePrimality::is_prime has no body (unimplemented!())
Invoke_unimplemented(kind) ==
    /\ pc = "suite"
    /\ results[kind] = None
    /\ kind = "SievePrimality" => n <= TestSieve.limit
    /\ IF kind = "NaivePrimality"
       THEN /\ pc' = "aborted"
            /\ results' = results
       ELSE /\ pc' = pc
            /\ results' =
                  [results EXCEPT ![kind] = Some(is_prime(Instance(kind), n))]
    /\ UNCHANGED <<filter, upper, cur, sum, out, n, iter, i, result, item,
                   yielded>>

\* instance.is_prime(n), the sieve only within its limit
Invoke(kind) ==
    /\ pc = "suite"
    /\ results[kind] = None
    /\ kind = "SievePrimality" => n <= TestSieve.limit
    /\ results' = [results EXCEPT ![kind] = Some(is_prime(Instance(kind), n))]
    /\ UNCHANGED <<pc, filter, upper, cur, sum, out, n, iter, i, result, item,
                   yielded>>

SuiteNext == \E kind \in Kinds : Invoke(kind)

SuiteSpec == SuiteInit /\ [][SuiteNext]_vars

(***************************************************************************)
(* Spec: the driver, main.                                                 *)
(*   let sum: u64 = (1..upper).filter(|&n| filter.is_prime(n)).sum();      *)
(*   println!("{}", sum);                                                  *)
(***************************************************************************)
Uppers == {TestLimit, MaxUpper}

Init ==
    /\ pc = "iter"
    /\ upper \in Uppers
    /\ filter \in Filters(upper)
    /\ cur = 1
    /\ sum = U64(0)
    /\ out = <<>>
    /\ NoCall /\ NoDrain /\ NoSuite

\* the range yields cur, the filter keeps it when is_prime, sum adds it.
\* An overflowing add panics in a debug build and wraps in a release build.
Examine ==
    /\ pc = "iter"
    /\ cur < upper
    /\ cur' = cur + 1
    /\ IF is_prime(filter, cur)
       THEN LET r == U64_add(sum, U64(cur))
            IN  /\ sum' = r.value
                /\ pc' \in (IF r.overflow THEN {"panicked", "iter"} ELSE {"iter"})
       ELSE /\ sum' = sum
            /\ pc' = pc
    /\ UNCHANGED <<filter, upper, out, n, iter, i, result, item, yielded, results>>

\* variant of Println: the sum is printed before the range is exhausted
Println_early ==
    /\ pc = "iter"
    /\ out' = Append(out, sum)
    /\ pc' = "done"
    /\ UNCHANGED <<filter, upper, cur, sum, n, iter, i, result, item, yielded,
                   results>>

\* the range is exhausted: println!("{}", sum)
Println ==
    /\ pc = "iter"
    /\ cur >= upper
    /\ out' = Append(out, sum)
    /\ pc' = "done"
    /\ UNCHANGED <<filter, upper, cur, sum, n, iter, i, result, item, yielded, results>>

Next == Examine \/ Println

Spec == Init /\ [][Next]_vars

\* main runs to completion: it is a sequential program that is never suspended
FairSpec == Spec /\ WF_vars(Next)

(***************************************************************************)
(* The properties checked.                                                 *)
(***************************************************************************)
\* m is a prime number
IsPrime(m) == m >= 2 /\ \A d \in 2..(m - 1) : m % d # 0

Booleans == {Some(TRUE), Some(FALSE)}

\* the value of a u64 that fits the model's integers, else -1
U64_value(a) ==
    IF a[3] = 0 /\ a[4] = 0 /\ a[2] < LimbBase \div 4
    THEN a[1] + a[2] * LimbBase
    ELSE -1

\* the sum of the m in lo..hi that f reports prime
RECURSIVE ExactSum(_, _, _)
ExactSum(f, lo, hi) ==
    IF lo > hi THEN 0
    ELSE IF lo = hi THEN (IF is_prime(f, lo) THEN lo ELSE 0)
    ELSE LET mid == (lo + hi) \div 2
         IN  ExactSum(f, lo, mid) + ExactSum(f, mid + 1, hi)

\* C1: for every n in 1..1000 each of the five trial-division strategies
\* returns from is_prime(n) what the sieve built for 1000 returns, which is
\* whether n is prime (and what the operator is_prime computes for the call).
C1_AgreesWithSieve ==
    (pc = "returned" /\ filter.kind \in TrialKinds /\ n \in 1..TestLimit) =>
        /\ result = Some(SievePrimality_is_prime(TestSieve, n))
        /\ result = Some(IsPrime(n))
        /\ result = Some(is_prime(filter, n))

C1_Witness ==
    /\ pc = "returned"
    /\ filter.kind = "FastLinearPrimality"
    /\ n = 961
    /\ i = 31
    /\ result = Some(FALSE)

\* C2: for every n >= 0, 0 included, every trial-division strategy returns
\* whether n is prime.
C2_PrimalityForEveryN ==
    (pc = "returned" /\ filter.kind \in TrialKinds) => result = Some(IsPrime(n))

\* C3: the driver with upper bound 1000 prints the same total with the naive
\* strategy as with the sieve, and the total is 76127.
C3_SumBelowThousand ==
    (pc = "done" /\ upper = TestLimit
        /\ filter.kind \in {"NaivePrimality", "SievePrimality"}) =>
        out = <<U64(76127)>>

C3_Witness ==
    /\ pc = "done"
    /\ upper = TestLimit
    /\ filter.kind = "NaivePrimality"
    /\ cur = TestLimit
    /\ Len(out) = 1

\* C4: whichever trial-division strategy is wired into main, each n of the
\* range is kept exactly when the other four would keep it, and the sum
\* printed is the one FastNonLinearPrimality gives.
C4_SumIndependentOfStrategy ==
    filter.kind \in TrialKinds =>
        /\ (pc = "iter" /\ cur < upper) =>
              \A k \in TrialKinds : is_prime(Unit(k), cur) = is_prime(filter, cur)
        /\ pc = "done" =>
              out = <<U64(ExactSum(Unit("FastNonLinearPrimality"), 1, upper - 1))>>

C4_Witness ==
    /\ pc = "done"
    /\ filter.kind = "NaivePrimalityWithRangeLimit"
    /\ upper = MaxUpper
    /\ out = <<U64(ExactSum(Unit("FastNonLinearPrimality"), 1, MaxUpper - 1))>>

C6_OneOutputAtEnd ==
    /\ [](Len(out) <= 1)
    /\ [](Len(out) = 1 => (pc = "done" /\ cur = upper))
    /\ [](pc = "done" => Len(out) = 1)
    /\ [][Len(out) = 1 => out' = out]_vars
    /\ <>(pc = "done")

C6_Witness ==
    /\ pc = "done"
    /\ cur = upper
    /\ upper = MaxUpper
    /\ Len(out) = 1

C8_EvenShortCircuit ==
    (filter.kind \in OddStepKinds /\ n > 2 /\ n % 2 = 0) =>
        /\ pc \in {"call", "returned"}
        /\ iter = NoIter
        /\ i = 0
        /\ pc = "returned" => result = Some(FALSE)

C8_Witness ==
    /\ filter.kind = "FastNonLinearPrimality"
    /\ n = 1000
    /\ pc = "returned"
    /\ iter = NoIter
    /\ result = Some(FALSE)

\* C9: in every strategy and for every n >= 0 each divisor i of an n % i
\* test satisfies 2 <= i < n, and the call raises no error.
C9_DivisorsInRange ==
    /\ pc \in {"call", "loop", "test", "returned"}
    /\ pc = "test" => (2 <= i /\ i < n)
    /\ pc = "returned" => result \in Booleans

C9_Witness ==
    /\ pc = "test"
    /\ filter.kind = "NaivePrimalityWithNonLinearRangeLimit"
    /\ n = 3
    /\ i = 2

\* the odd integers from 3 up to limit
OddsUpTo(limit) == {k \in 3..limit : k % 2 = 1}

====
